---- MODULE Spec2Model ----
(***************************************************************************)
(* State-machine model of arm_system/main.py (class Robot): the menu loop, *)
(* the scan, the object registry, the pick & place sequences, the          *)
(* movement sequencer and the safety protocol, together with the transport *)
(* (communication.serial_manager.CommunicationManager) that the Robot      *)
(* drives and that delivers detections, confirmations, the scan-complete   *)
(* signal and the safety status from its own reader thread.                *)
(*                                                                         *)
(* Strings that the code inspects character by character (object classes,  *)
(* the typed selection) are sequences of one-character strings.            *)
(* Time is counted in polls of time.sleep(0.5): PollsPerUnit polls make one *)
(* time unit.                                                              *)
(***************************************************************************)
EXTENDS Integers, Sequences, FiniteSets, TLC

\* ------------------------------------------------------------------ bounds

\* Detection events handed to the callback between two clears of scan_results.
MaxEvents == 2

\* Movement commands that the serial link can hold unanswered at one time.
MaxInFlight == 1

\* ------------------------------------------------------- program constants

\* handle_movement_failure: while (time.time() - start_time) < 15
SafetyDeadline == 15

\* handle_movement_failure: time.sleep(0.5), two polls per time unit
PollsPerUnit == 2

\* Absent key of a dict / absent field of a message.
None == 0 - 1

\* ------------------------------------------------------------------ strings

UpperAlpha ==
  <<"A","B","C","D","E","F","G","H","I","J","K","L","M",
    "N","O","P","Q","R","S","T","U","V","W","X","Y","Z">>

LowerAlpha ==
  <<"a","b","c","d","e","f","g","h","i","j","k","l","m",
    "n","o","p","q","r","s","t","u","v","w","x","y","z">>

\* str.lower() on one character
LowerChar(c) ==
  IF \E i \in 1..Len(UpperAlpha) : UpperAlpha[i] = c
  THEN LowerAlpha[CHOOSE i \in 1..Len(UpperAlpha) : UpperAlpha[i] = c]
  ELSE c

\* str.lower()
LowerStr(s) == [i \in 1..Len(s) |-> LowerChar(s[i])]

\* str.upper() on one character; used only to enumerate spellings of a class
UpperChar(c) ==
  IF \E i \in 1..Len(LowerAlpha) : LowerAlpha[i] = c
  THEN UpperAlpha[CHOOSE i \in 1..Len(LowerAlpha) : LowerAlpha[i] = c]
  ELSE c

RECURSIVE CaseVariants(_)
\* every spelling of w that differs from w only in letter case
CaseVariants(w) ==
  IF w = <<>> THEN {<<>>}
  ELSE {<<c>> \o r : c \in {Head(w), UpperChar(Head(w))}, r \in CaseVariants(Tail(w))}

\* ------------------------------------------------------------ placement zones

apple == <<"a","p","p","l","e">>
orange == <<"o","r","a","n","g","e">>
bottle == <<"b","o","t","t","l","e">>
default == <<"d","e","f","a","u","l","t">>

\* Robot.__init__: self.placement_zones
placement_zones ==
  [k \in {apple, orange, bottle, default} |->
     CASE k = apple  -> [angle |-> 90,  distance |-> 200]
       [] k = orange -> [angle |-> 180, distance |-> 200]
       [] k = bottle -> [angle |-> 45,  distance |-> 200]
       [] OTHER      -> [angle |-> 270, distance |-> 200]]

\* A faulty lookup, for comparison: the key is not lowered
GetPlacementZonesCaseSensitive(object_class) ==
  IF object_class \in DOMAIN placement_zones
  THEN placement_zones[object_class]
  ELSE placement_zones[default]

\* Robot._get_placement_zones
GetPlacementZones(object_class) ==
  IF LowerStr(object_class) \in DOMAIN placement_zones
  THEN placement_zones[LowerStr(object_class)]
  ELSE placement_zones[default]

\* ------------------------------------------------------------ detection events

\* A detection event as the transport hands it to the callback.  has_class is
\* FALSE when the dict has no 'class' key.
DetectionEvent(has, cls, ang, dist, conf) ==
  [has_class |-> has, class |-> cls, angle |-> ang, distance |-> dist,
   confidence |-> conf]

\* The events the transport delivers in the orchestration runs: a mapped class
\* in mixed case, an unmapped class, an empty class and a missing class.
Events ==
  { DetectionEvent(TRUE, <<"A","p","p","l","e">>, 10, 100, 90),
    DetectionEvent(TRUE, <<"c","u","p">>, 20, 150, 80),
    DetectionEvent(TRUE, <<>>, 30, 120, 70),
    DetectionEvent(FALSE, <<>>, 40, 130, 60) }

\* data.get('class') is truthy
HasClass(data) == data.has_class /\ data.class # <<>>

\* The record _update_object_registry appends; it has no 'index' key
\* (index = None) until process_scan_results rebuilds the list.
RawRecord(data) ==
  [index |-> None,
   angle |-> data.angle,
   distance |-> data.distance,
   class |-> IF data.has_class THEN data.class ELSE default,
   confidence |-> data.confidence,
   placement_zone |-> GetPlacementZones(IF data.has_class THEN data.class ELSE default)]

\* Robot._update_object_registry
UpdateObjectRegistry(results, data) == Append(results, RawRecord(data))

\* A faulty callback, for comparison: no test of the class
ScanCallbackKeepAll(results, data) == UpdateObjectRegistry(results, data)

\* Robot._scan_callback
ScanCallback(results, data) ==
  IF HasClass(data) THEN UpdateObjectRegistry(results, data) ELSE results

\* process_scan_results: the item built for the i-th record (enumerate, start=1)
ProcessedItem(i, obj) == [obj EXCEPT !.index = i]

\* A record select_object_interactively and the sequences can read: it has the
\* keys 'index' and 'center_angle'.
IsProcessed(obj) == obj.index # None

\* ------------------------------------------------------------------ selection

Digits == <<"0","1","2","3","4","5","6","7","8","9">>

IsDigit(c) == \E i \in 1..10 : Digits[i] = c

DigitValue(c) == (CHOOSE i \in 1..10 : Digits[i] = c) - 1

RECURSIVE StripLeft(_)
StripLeft(s) == IF s # <<>> /\ Head(s) = " " THEN StripLeft(Tail(s)) ELSE s

RECURSIVE StripRight(_)
StripRight(s) ==
  IF s # <<>> /\ s[Len(s)] = " " THEN StripRight(SubSeq(s, 1, Len(s) - 1)) ELSE s

RECURSIVE DigitsValue(_)
DigitsValue(s) ==
  IF s = <<>> THEN 0
  ELSE 10 * DigitsValue(SubSeq(s, 1, Len(s) - 1)) + DigitValue(s[Len(s)])

\* int(text): surrounding blanks are dropped, one sign is allowed, the rest must
\* be one or more decimal digits; anything else raises ValueError (ok = FALSE).
ParseInt(text) ==
  LET t == StripRight(StripLeft(text))
      signed == t # <<>> /\ Head(t) \in {"+", "-"}
      body == IF signed THEN Tail(t) ELSE t
      ok == body # <<>> /\ \A i \in 1..Len(body) : IsDigit(body[i])
  IN [ok |-> ok,
      val |-> IF ~ok THEN 0
              ELSE IF signed /\ Head(t) = "-" THEN 0 - DigitsValue(body)
              ELSE DigitsValue(body)]

\* What the user may type at the selection prompt.
SelectionInputs ==
  { <<"0">>, <<"x">>, <<>>, <<" ","1"," ">>, <<"-","1">>, <<"+","2">>,
    <<"1",".","5">>, <<"0","0">> }
  \cup { <<Digits[d + 1]>> : d \in 1..(MaxEvents + 1) }

\* The empty dict select_object_interactively returns for "nothing selected".
NoObject ==
  [index |-> None, angle |-> None, distance |-> None, class |-> <<>>,
   confidence |-> None, placement_zone |-> [angle |-> None, distance |-> None]]

\* A faulty selection, for comparison: 0 or an unmatched number falls back to
\* the first entry
SelectObjectOrFirst(results, parsed) ==
  IF ~parsed.ok THEN NoObject
  ELSE IF \E i \in 1..Len(results) : results[i].index = parsed.val
       THEN results[CHOOSE i \in 1..Len(results) :
                      /\ results[i].index = parsed.val
                      /\ \A j \in 1..(i - 1) : results[j].index # parsed.val]
       ELSE IF results # <<>> THEN results[1] ELSE NoObject

\* select_object_interactively, after the list was printed: the value returned
\* for the parsed input
SelectObject(results, parsed) ==
  IF ~parsed.ok THEN NoObject
  ELSE IF parsed.val = 0 THEN NoObject
  ELSE IF \E i \in 1..Len(results) : results[i].index = parsed.val
       THEN results[CHOOSE i \in 1..Len(results) :
                      /\ results[i].index = parsed.val
                      /\ \A j \in 1..(i - 1) : results[j].index # parsed.val]
       ELSE NoObject

\* ------------------------------------------------------------ movement plans

Joints == {"base", "arm", "gripper"}

Move(joint, action, angle, distance, speed) ==
  [joint |-> joint, action |-> action, angle |-> angle, distance |-> distance,
   speed |-> speed]

\* execute_pick_sequence: plan
PickPlan(target_object) ==
  << Move("base", "", target_object.angle, None, 30),
     Move("arm", "pick", None, target_object.distance, None),
     Move("gripper", "close", None, None, None),
     Move("arm", "up", None, target_object.distance, None) >>

\* A faulty plan, for comparison: the base is not returned to rest
PlacePlanNoRest(target_object) ==
  << Move("base", "", target_object.placement_zone.angle, None, 30),
     Move("arm", "place", None, target_object.placement_zone.distance, None),
     Move("gripper", "open", None, None, None),
     Move("arm", "up", None, target_object.distance, None) >>

\* execute_place_sequence: movement_plan
PlacePlan(target_object) ==
  << Move("base", "", target_object.placement_zone.angle, None, 30),
     Move("arm", "place", None, target_object.placement_zone.distance, None),
     Move("gripper", "open", None, None, None),
     Move("arm", "up", None, target_object.distance, None),
     Move("base", "", 0, None, 60) >>

\* A message handed to serial_manager.send_message(message_type, payload).
Message(service, move) == [service |-> service, move |-> move]

NoMove == Move("", "", None, None, None)

\* ------------------------------------------------------------------- state

VARIABLES
  pc,                  \* where the control thread (run / main_menu_loop) stands
  scan_results,        \* Robot.scan_results
  callback,            \* serial_manager callback for 'scan_service' is _scan_callback
  scan_complete_event, \* serial_manager.scan_complete_event is set
  proc_i,              \* process_scan_results: records enumerated so far
  processed_list,      \* process_scan_results: processed_list
  selection,           \* select_object_interactively: the parsed input
  selected_object,     \* handle_pick_place_command: selected_object
  message_type,        \* execute_movement: message_type
  movement_sequence,   \* execute_movement: movement_sequence
  move_i,              \* execute_movement: position of move in movement_sequence
  movement_status,     \* serial_manager.movement_status[joint]['state'], "none" when
                       \* nothing was reported since the last attempt ended
  safety_status,       \* serial_manager.safety_status['state']
  safe_elapsed,        \* handle_movement_failure: polls slept since start_time
  is_open,             \* the serial connection is open and its reader runs
  closes,              \* calls of serial_manager.close() so far
  scan_requested,      \* the hardware runs a scan it has not reported complete yet
  safety_requested,    \* a safety command the hardware has not completed yet
  inflight,            \* joints of the movement commands not answered yet, oldest first
  sent,                \* messages sent since the last menu command was read
  delivered,           \* detections handed to the callback since it was registered
                       \* or scan_results was cleared
  late_detection,      \* in this scan a detection was handed over after the wait returned
  own_signal,          \* the scan-complete signal was delivered while this scan waits for it
  last_scan,           \* how the wait of the last scan ended, until the next scan or pick & place
  waits,               \* outcomes of wait_for_confirmation since the last menu command
  safety_arrival,      \* when 'completed' arrived for the current safety request
  fault,               \* outcome of handle_movement_failure in this attempt
  own_answer,          \* what the hardware answered to the command the sequencer waits for
  exit_code,           \* exit status of the process, None while it runs
  exit_cause           \* what ended main_menu_loop

registry_vars == <<scan_results, callback, scan_complete_event, proc_i, processed_list,
                   delivered, late_detection, own_signal, last_scan>>

attempt_vars == <<selection, selected_object, message_type, movement_sequence, move_i>>

status_vars == <<movement_status, safety_status>>

link_vars == <<is_open, closes, scan_requested, safety_requested, inflight>>

fault_vars == <<safe_elapsed, safety_arrival, fault, own_answer>>

exit_vars == <<exit_code, exit_cause>>

vars == <<pc, registry_vars, attempt_vars, status_vars, link_vars, fault_vars,
          exit_vars, sent, waits>>

NoSelection == [ok |-> FALSE, val |-> None]

\* Robot.__init__ has run; run() has not yet called connect().
Init ==
  /\ pc = "run"
  /\ scan_results = <<>>
  /\ callback = TRUE
  /\ scan_complete_event = FALSE
  /\ proc_i = 0
  /\ processed_list = <<>>
  /\ selection = NoSelection
  /\ selected_object = NoObject
  /\ message_type = ""
  /\ movement_sequence = <<>>
  /\ move_i = 0
  /\ movement_status = [j \in Joints |-> "none"]
  /\ safety_status = "idle"
  /\ safe_elapsed = 0
  /\ is_open = FALSE
  /\ closes = 0
  /\ scan_requested = FALSE
  /\ safety_requested = FALSE
  /\ inflight = <<>>
  /\ sent = <<>>
  /\ delivered = <<>>
  /\ late_detection = FALSE
  /\ own_signal = FALSE
  /\ last_scan = "none"
  /\ waits = <<>>
  /\ safety_arrival = "none"
  /\ fault = "none"
  /\ own_answer = "none"
  /\ exit_code = None
  /\ exit_cause = "none"

\* ------------------------------------------------------- run and the menu

DeadlinePolls == SafetyDeadline * PollsPerUnit

\* What every menu command starts from: the records of the previous command
\* (messages, waits, selection, plan, fault) are dropped.
FreshCommand(messages) ==
  /\ sent' = messages
  /\ waits' = <<>>
  /\ selection' = NoSelection
  /\ selected_object' = NoObject
  /\ message_type' = ""
  /\ movement_sequence' = <<>>
  /\ move_i' = 0
  /\ safe_elapsed' = 0
  /\ safety_arrival' = "none"
  /\ fault' = "none"
  /\ own_answer' = "none"

\* A command handler returns to main_menu_loop: its locals are gone, and the
\* records kept of the command (waits, selection, plan, fault) are dropped.
\* messages is what stays recorded as sent.
BackToMenu(messages) ==
  /\ pc' = "Idle"
  /\ FreshCommand(messages)

\* run: finally: serial_manager.close(), and the process ends with its memory:
\* what stays is the exit status, what caused the exit and the calls of close().
\* SystemExit(1) of exit(1) and an uncaught KeyError end it with status 1.
RunFinally(cause) ==
  /\ pc' = "Terminated"
  /\ closes' = closes + 1
  /\ exit_cause' = cause
  /\ exit_code' = IF cause \in {"safety_timeout", "KeyError"} THEN 1 ELSE 0
  /\ is_open' = FALSE
  /\ FreshCommand(<<>>)
  /\ scan_results' = <<>>
  /\ callback' = FALSE
  /\ scan_complete_event' = FALSE
  /\ proc_i' = 0
  /\ processed_list' = <<>>
  /\ delivered' = <<>>
  /\ late_detection' = FALSE
  /\ own_signal' = FALSE
  /\ last_scan' = "none"
  /\ movement_status' = [j \in Joints |-> "none"]
  /\ safety_status' = "idle"
  /\ scan_requested' = FALSE
  /\ safety_requested' = FALSE
  /\ inflight' = <<>>

\* run: serial_manager.connect() returns ok; without a connection run() goes
\* straight to its finally clause.
Connect(ok) ==
  /\ pc = "run"
  /\ IF ok
     THEN /\ is_open' = TRUE
          /\ pc' = "Idle"
          /\ UNCHANGED <<registry_vars, attempt_vars, status_vars, closes,
                         scan_requested, safety_requested, inflight, fault_vars,
                         exit_vars, sent, waits>>
     ELSE RunFinally("no_connection")

\* main_menu_loop: 'c'
MenuCheck ==
  /\ pc = "Idle"
  /\ BackToMenu(<<Message("check_service", NoMove)>>)
  /\ UNCHANGED <<registry_vars, status_vars, link_vars, exit_vars>>

\* main_menu_loop: 's'
MenuSafety ==
  /\ pc = "Idle"
  /\ BackToMenu(<<Message("safety_service", NoMove)>>)
  /\ safety_requested' = TRUE
  /\ UNCHANGED <<registry_vars, status_vars, is_open, closes, scan_requested,
                 inflight, exit_vars>>

\* main_menu_loop: 'q' (running = False, the loop ends, run() reaches finally)
MenuQuit ==
  /\ pc = "Idle"
  /\ RunFinally("quit")

\* main_menu_loop: any other input
MenuUnrecognized ==
  /\ pc = "Idle"
  /\ BackToMenu(<<>>)
  /\ UNCHANGED <<registry_vars, status_vars, link_vars, exit_vars>>

\* run: except KeyboardInterrupt, raised while input() waits for the user
Interrupt ==
  /\ pc \in {"Idle", "select_input"}
  /\ RunFinally("interrupt")

\* run: finally, reached by the SystemExit of handle_movement_failure
Finally ==
  /\ pc = "finally"
  /\ RunFinally(exit_cause)

\* ---------------------------------------------------------------- the scan

\* main_menu_loop: 'n'; handle_scan_command: self.scan_results = []
ScanClear ==
  /\ pc = "Idle"
  /\ FreshCommand(<<>>)
  /\ scan_results' = <<>>
  /\ delivered' = <<>>
  /\ late_detection' = FALSE
  /\ own_signal' = FALSE
  /\ last_scan' = "none"
  /\ pc' = "scan_register"
  /\ UNCHANGED <<callback, scan_complete_event, proc_i, processed_list, status_vars,
                 link_vars, exit_vars>>

\* handle_scan_command: register_callback, send_message('scan_service')
ScanRegisterSend ==
  /\ pc = "scan_register"
  /\ callback' = TRUE
  /\ sent' = Append(sent, Message("scan_service", Move("", "", None, None, 20)))
  /\ scan_requested' = TRUE
  /\ pc' = "scan_wait"
  /\ UNCHANGED <<scan_results, scan_complete_event, proc_i, processed_list, delivered,
                 late_detection, own_signal, last_scan, attempt_vars, status_vars, is_open, closes,
                 safety_requested, inflight, fault_vars, exit_vars, waits>>

\* handle_scan_command: scan_complete_event.wait(timeout=60) returns True;
\* scan_complete_event.clear()
ScanWaitSet ==
  /\ pc = "scan_wait"
  /\ scan_complete_event
  /\ scan_complete_event' = FALSE
  /\ last_scan' = "complete"
  /\ pc' = "process"
  /\ UNCHANGED <<scan_results, callback, proc_i, processed_list, delivered,
                 late_detection, own_signal, attempt_vars, status_vars, link_vars, fault_vars,
                 exit_vars, sent, waits>>

\* handle_scan_command: the wait returns False, the 60 time units went by with
\* the event unset; log.error("scanning timeout")
ScanWaitTimeout ==
  /\ pc = "scan_wait"
  /\ ~scan_complete_event
  /\ last_scan' = "timeout"
  /\ pc' = "scan_unregister"
  /\ UNCHANGED <<scan_results, callback, scan_complete_event, proc_i, processed_list,
                 delivered, late_detection, own_signal, attempt_vars, status_vars, link_vars,
                 fault_vars, exit_vars, sent, waits>>

\* process_scan_results: if not self.scan_results: return; else start the loop
ProcessCheck ==
  /\ pc = "process"
  /\ pc' = IF scan_results = <<>> THEN "scan_unregister" ELSE "process_loop"
  /\ proc_i' = 0
  /\ processed_list' = <<>>
  /\ UNCHANGED <<scan_results, callback, scan_complete_event, delivered,
                 late_detection, own_signal, last_scan, attempt_vars, status_vars, link_vars,
                 fault_vars, exit_vars, sent, waits>>

\* process_scan_results: one turn of for i, obj in enumerate(self.scan_results,
\* start=1); the list iterator ends when its position reaches the length the
\* list has at that moment.
ProcessLoop ==
  /\ pc = "process_loop"
  /\ IF proc_i < Len(scan_results)
     THEN /\ processed_list' =
               Append(processed_list, ProcessedItem(proc_i + 1, scan_results[proc_i + 1]))
          /\ proc_i' = proc_i + 1
          /\ pc' = pc
     ELSE /\ pc' = "process_assign"
          /\ UNCHANGED <<proc_i, processed_list>>
  /\ UNCHANGED <<scan_results, callback, scan_complete_event, delivered,
                 late_detection, own_signal, last_scan, attempt_vars, status_vars, link_vars,
                 fault_vars, exit_vars, sent, waits>>

\* process_scan_results: self.scan_results = processed_list
ProcessAssign ==
  /\ pc = "process_assign"
  /\ scan_results' = processed_list
  /\ processed_list' = <<>>
  /\ proc_i' = 0
  /\ pc' = "scan_unregister"
  /\ UNCHANGED <<callback, scan_complete_event, delivered, late_detection, own_signal, last_scan,
                 attempt_vars, status_vars, link_vars, fault_vars, exit_vars, sent,
                 waits>>

\* handle_scan_command: register_callback('scan_service', None)
ScanUnregister ==
  /\ pc = "scan_unregister"
  /\ callback' = FALSE
  /\ delivered' = <<>>
  /\ late_detection' = FALSE
  /\ own_signal' = FALSE
  /\ BackToMenu(<<>>)
  /\ UNCHANGED <<scan_results, scan_complete_event, proc_i, processed_list,
                 last_scan, status_vars, link_vars, exit_vars>>

\* ------------------------------------------------------------ pick & place

\* A faulty handler, for comparison: the selection is offered whatever the
\* catalog holds
NeedsScanNever(results) == FALSE

\* handle_pick_place_command: if not self.scan_results
NeedsScan(results) == results = <<>>

\* main_menu_loop: 'p'; handle_pick_place_command: if not self.scan_results:
\* warn "first scanning the enviroment" and return
PickPlaceStart ==
  /\ pc = "Idle"
  /\ FreshCommand(<<>>)
  /\ pc' = IF NeedsScan(scan_results) THEN "Idle" ELSE "select_print"
  /\ last_scan' = "none"
  /\ UNCHANGED <<scan_results, callback, scan_complete_event, proc_i, processed_list,
                 delivered, late_detection, own_signal, status_vars, link_vars, exit_vars>>

\* select_object_interactively: the loop that prints o['index'],
\* o['center_angle'], ... of every entry; a record without these keys raises
\* KeyError, which nothing catches; run() reaches its finally clause.
SelectPrint ==
  /\ pc = "select_print"
  /\ IF \A i \in 1..Len(scan_results) : IsProcessed(scan_results[i])
     THEN /\ pc' = "select_input"
          /\ UNCHANGED <<registry_vars, attempt_vars, status_vars, link_vars,
                         fault_vars, exit_vars, sent, waits>>
     ELSE RunFinally("KeyError")

\* select_object_interactively: selection = int(input(...)), or ValueError
SelectInput(text) ==
  /\ pc = "select_input"
  /\ selection' = ParseInt(text)
  /\ pc' = "select_return"
  /\ UNCHANGED <<registry_vars, selected_object, message_type, movement_sequence,
                 move_i, status_vars, link_vars, fault_vars, exit_vars, sent, waits>>

\* select_object_interactively: the value returned for the parsed input;
\* handle_pick_place_command: if not selected_object: return
SelectReturn ==
  /\ pc = "select_return"
  /\ IF SelectObject(scan_results, selection) = NoObject
     THEN BackToMenu(<<>>)
     ELSE /\ selected_object' = SelectObject(scan_results, selection)
          /\ pc' = "pick_start"
          /\ UNCHANGED <<selection, message_type, movement_sequence, move_i,
                         fault_vars, sent, waits>>
  /\ UNCHANGED <<registry_vars, status_vars, link_vars, exit_vars>>

\* execute_pick_sequence: the plan, execute_movement('pick_service', plan)
PickStart ==
  /\ pc = "pick_start"
  /\ message_type' = "pick_service"
  /\ movement_sequence' = PickPlan(selected_object)
  /\ move_i' = 1
  /\ pc' = "move_reset"
  /\ UNCHANGED <<registry_vars, selection, selected_object, status_vars, link_vars,
                 fault_vars, exit_vars, sent, waits>>

\* ------------------------------------------------------- execute_movement

CurrentMove == movement_sequence[move_i]

\* execute_movement: movement_status[joint] = {'state': 'pending'}
MoveReset ==
  /\ pc = "move_reset"
  /\ movement_status' = [movement_status EXCEPT ![CurrentMove.joint] = "pending"]
  /\ pc' = "move_send"
  /\ UNCHANGED <<registry_vars, attempt_vars, safety_status, link_vars, fault_vars,
                 exit_vars, sent, waits>>

\* A faulty sequencer, for comparison: the loop takes the next move without
\* waiting
SendContinuationNoWait(i, n) ==
  IF i < n THEN [pc |-> "move_reset", i |-> i + 1]
  ELSE [pc |-> "sequence_done", i |-> i]

\* execute_movement: after send_message the thread blocks in
\* wait_for_confirmation(joint) for the same move
SendContinuation(i, n) == [pc |-> "move_wait", i |-> i]

\* execute_movement: send_message(message_type, move)
MoveSend ==
  /\ pc = "move_send"
  /\ Len(inflight) < MaxInFlight
  /\ sent' = Append(sent, Message(message_type, CurrentMove))
  /\ inflight' = Append(inflight, CurrentMove.joint)
  /\ pc' = SendContinuation(move_i, Len(movement_sequence)).pc
  /\ move_i' = SendContinuation(move_i, Len(movement_sequence)).i
  /\ own_answer' = "unanswered"
  /\ UNCHANGED <<registry_vars, selection, selected_object, message_type,
                 movement_sequence, status_vars, is_open, closes, scan_requested,
                 safety_requested, safe_elapsed, safety_arrival, fault, exit_vars,
                 waits>>

WaitOutcome(ok) == [service |-> message_type, step |-> move_i, ok |-> ok]

\* execute_movement: wait_for_confirmation(joint) returns True; the loop takes
\* the next move, or execute_movement returns
MoveConfirmed ==
  /\ pc = "move_wait"
  /\ movement_status[CurrentMove.joint] = "completed"
  /\ waits' = Append(waits, WaitOutcome(TRUE))
  /\ IF move_i < Len(movement_sequence)
     THEN move_i' = move_i + 1 /\ pc' = "move_reset"
     ELSE move_i' = move_i /\ pc' = "sequence_done"
  /\ own_answer' = "none"
  /\ UNCHANGED <<registry_vars, selection, selected_object, message_type,
                 movement_sequence, status_vars, link_vars, safe_elapsed,
                 safety_arrival, fault, exit_vars, sent>>

\* execute_movement: wait_for_confirmation(joint) returns False because the
\* joint reported 'failed'; raise, except: handle_movement_failure()
MoveFailed ==
  /\ pc = "move_wait"
  /\ movement_status[CurrentMove.joint] = "failed"
  /\ waits' = Append(waits, WaitOutcome(FALSE))
  /\ pc' = "safety_send"
  /\ own_answer' = "none"
  /\ UNCHANGED <<registry_vars, attempt_vars, status_vars, link_vars, safe_elapsed,
                 safety_arrival, fault, exit_vars, sent>>

\* execute_movement: wait_for_confirmation(joint) returns False because its
\* timeout went by with the joint still 'pending'
MoveTimeout ==
  /\ pc = "move_wait"
  /\ movement_status[CurrentMove.joint] = "pending"
  /\ waits' = Append(waits, WaitOutcome(FALSE))
  /\ pc' = "safety_send"
  /\ own_answer' = "none"
  /\ UNCHANGED <<registry_vars, attempt_vars, status_vars, link_vars, safe_elapsed,
                 safety_arrival, fault, exit_vars, sent>>

\* ------------------------------------------------ handle_movement_failure

\* A faulty protocol, for comparison: the safety command is sent a second time
SafetyRequestTwice(messages) ==
  Append(Append(messages, Message("safety_service", NoMove)),
         Message("safety_service", NoMove))

\* handle_movement_failure: send_message('safety_service', {})
SafetyRequest(messages) == Append(messages, Message("safety_service", NoMove))

\* handle_movement_failure: send_message('safety_service', {}); start_time
SafetySend ==
  /\ pc = "safety_send"
  /\ sent' = SafetyRequest(sent)
  /\ safety_requested' = TRUE
  /\ safe_elapsed' = 0
  /\ safety_arrival' = IF safety_status = "completed" THEN "stale" ELSE "none"
  /\ pc' = "safety_poll"
  /\ UNCHANGED <<registry_vars, attempt_vars, status_vars, is_open, closes,
                 scan_requested, inflight, fault, own_answer, exit_vars, waits>>

\* A faulty sequencer, for comparison: the failure is swallowed and the loop
\* takes the next move
FailureContinuationNoRaise(i, n) ==
  IF i < n THEN [pc |-> "move_reset", i |-> i + 1]
  ELSE [pc |-> "sequence_done", i |-> i]

\* execute_movement: after handle_movement_failure() returned, raise: the loop
\* is left and the exception reaches the sequence that called
FailureContinuation(i, n) == [pc |-> "sequence_failed", i |-> i]

\* handle_movement_failure: while (time.time() - start_time) < 15
PollInTime(elapsed) == elapsed < DeadlinePolls

\* handle_movement_failure: one test of the loop condition and of
\* safety_status.get('state') == 'completed'
SafetyPoll ==
  /\ pc = "safety_poll"
  /\ IF PollInTime(safe_elapsed)
     THEN IF safety_status = "completed"
          THEN /\ fault' = "Recovered"
               /\ safe_elapsed' = 0
               /\ pc' = FailureContinuation(move_i, Len(movement_sequence)).pc
               /\ move_i' = FailureContinuation(move_i, Len(movement_sequence)).i
          ELSE /\ pc' = "safety_sleep"
               /\ UNCHANGED <<fault, safe_elapsed, move_i>>
     ELSE /\ fault' = "Fatal"
          /\ pc' = "safety_close"
          /\ UNCHANGED <<safe_elapsed, move_i>>
  /\ UNCHANGED <<registry_vars, selection, selected_object, message_type,
                 movement_sequence, status_vars, link_vars, safety_arrival,
                 own_answer, exit_vars, sent, waits>>

\* A faulty clock, for comparison: no time passes in the sleep
SleepStalls(elapsed) == elapsed

\* handle_movement_failure: after time.sleep(0.5) the time since start_time is
\* one poll interval longer
SleepAdvance(elapsed) == elapsed + 1

\* handle_movement_failure: time.sleep(0.5)
SafetySleep ==
  /\ pc = "safety_sleep"
  /\ safe_elapsed' = SleepAdvance(safe_elapsed)
  /\ pc' = "safety_poll"
  /\ UNCHANGED <<registry_vars, attempt_vars, status_vars, link_vars, safety_arrival,
                 fault, own_answer, exit_vars, sent, waits>>

\* handle_movement_failure: serial_manager.close(); exit(1).  SystemExit is no
\* Exception: it passes the except clauses of execute_movement's caller and of
\* the sequences and reaches run().
SafetyClose ==
  /\ pc = "safety_close"
  /\ closes' = closes + 1
  /\ is_open' = FALSE
  /\ exit_cause' = "safety_timeout"
  /\ pc' = "finally"
  /\ UNCHANGED <<registry_vars, attempt_vars, status_vars, scan_requested,
                 safety_requested, inflight, fault_vars, exit_code, sent, waits>>

\* ----------------------------------------- back in handle_pick_place_command

\* A faulty handler, for comparison: the object that was handled is taken out
\* of the catalog
CatalogWithoutTarget(results, target_object) ==
  LET Other(x) == x.index # target_object.index IN SelectSeq(results, Other)

\* handle_pick_place_command and the two sequences read self.scan_results and
\* target_object and assign neither: the catalog after the attempt
CatalogAfterAttempt(results, target_object) == results

\* A faulty handler, for comparison: the place sequence runs whatever
\* execute_pick_sequence returned
PlaceAfterPickAlways(pick_ok) == TRUE

\* handle_pick_place_command: if self.execute_pick_sequence(selected_object):
PlaceAfterPick(pick_ok) == pick_ok

\* What follows the return of a sequence: after the pick sequence the place
\* sequence (execute_place_sequence: movement_plan, execute_movement) or the
\* menu; after the place sequence the menu.  No code reads
\* movement_status[joint] before execute_movement has set it to 'pending'
\* again, so what the joints reported during the attempt is not kept once the
\* attempt is over.
SequenceReturn(ok) ==
  IF message_type = "pick_service" /\ PlaceAfterPick(ok)
  THEN /\ message_type' = "place_service"
       /\ movement_sequence' = PlacePlan(selected_object)
       /\ move_i' = 1
       /\ pc' = "move_reset"
       /\ UNCHANGED <<selection, selected_object, fault_vars, sent, waits,
                      movement_status, scan_results>>
  ELSE /\ BackToMenu(<<>>)
       /\ movement_status' = [j \in Joints |-> "none"]
       /\ scan_results' = CatalogAfterAttempt(scan_results, selected_object)

\* execute_pick_sequence / execute_place_sequence: return True
SequenceDone ==
  /\ pc = "sequence_done"
  /\ SequenceReturn(TRUE)
  /\ UNCHANGED <<callback, scan_complete_event, proc_i, processed_list, delivered,
                 late_detection, own_signal, last_scan, safety_status, link_vars, exit_vars>>

\* execute_pick_sequence / execute_place_sequence: except Exception: return False
SequenceFailed ==
  /\ pc = "sequence_failed"
  /\ SequenceReturn(FALSE)
  /\ UNCHANGED <<callback, scan_complete_event, proc_i, processed_list, delivered,
                 late_detection, own_signal, last_scan, safety_status, link_vars, exit_vars>>

\* ------------------------------------------------------------ the transport

\* The pcs at which handle_scan_command is past its wait and has not yet
\* released the callback.
AfterScanWait ==
  {"process", "process_loop", "process_assign", "scan_unregister"}

\* The reader thread hands a detection to the registered callback.
Detect(data) ==
  /\ is_open
  /\ callback
  /\ Len(delivered) < MaxEvents
  /\ scan_results' = ScanCallback(scan_results, data)
  /\ delivered' = Append(delivered, data)
  /\ late_detection' = (late_detection \/ pc \in AfterScanWait)
  /\ UNCHANGED <<pc, own_signal, callback, scan_complete_event, proc_i, processed_list, last_scan,
                 attempt_vars, status_vars, link_vars, fault_vars, exit_vars, sent,
                 waits>>

\* The reader thread receives the end of the scan the hardware runs and sets
\* scan_complete_event.  A scan command sent while a scan runs restarts the
\* sweep: one signal follows however many commands were sent.
DeliverScanComplete ==
  /\ is_open
  /\ scan_requested
  /\ scan_complete_event' = TRUE
  /\ scan_requested' = FALSE
  /\ own_signal' = (own_signal \/ pc = "scan_wait")
  /\ UNCHANGED <<pc, scan_results, callback, proc_i, processed_list, delivered,
                 late_detection, last_scan, attempt_vars, status_vars, is_open, closes,
                 safety_requested, inflight, fault_vars, exit_vars, sent, waits>>

\* The oldest unanswered movement command is the one the sequencer waits for:
\* it was sent last, so it is the oldest when it is the only one.
OwnIsOldest == own_answer = "unanswered" /\ Len(inflight) = 1

\* The reader thread receives the answer to the oldest unanswered movement
\* command and stores it in movement_status.
DeliverConfirmation(state) ==
  /\ is_open
  /\ inflight # <<>>
  /\ movement_status' = [movement_status EXCEPT ![Head(inflight)] = state]
  /\ inflight' = Tail(inflight)
  /\ own_answer' = IF OwnIsOldest THEN state ELSE own_answer
  /\ UNCHANGED <<pc, registry_vars, attempt_vars, safety_status, is_open, closes,
                 scan_requested, safety_requested, safe_elapsed, safety_arrival,
                 fault, exit_vars, sent, waits>>

\* The hardware never answers the oldest unanswered movement command.
DropConfirmation ==
  /\ is_open
  /\ inflight # <<>>
  /\ inflight' = Tail(inflight)
  /\ UNCHANGED <<pc, registry_vars, attempt_vars, status_vars, is_open, closes,
                 scan_requested, safety_requested, fault_vars, exit_vars, sent, waits>>

\* The reader thread receives the completion of the safety protocol and stores
\* it in safety_status; nothing else ever writes safety_status.
DeliverSafety ==
  /\ is_open
  /\ safety_requested
  /\ safety_status' = "completed"
  /\ safety_requested' = FALSE
  /\ safety_arrival' =
       IF pc \in {"safety_poll", "safety_sleep"} /\ safety_arrival = "none"
       THEN IF safe_elapsed < DeadlinePolls THEN "in_time" ELSE "late"
       ELSE safety_arrival
  /\ UNCHANGED <<pc, registry_vars, attempt_vars, movement_status, is_open, closes,
                 scan_requested, inflight, safe_elapsed, fault, own_answer, exit_vars, sent, waits>>

\* ------------------------------------------------------------ specification

Next ==
  \/ \E ok \in BOOLEAN : Connect(ok)
  \/ MenuCheck
  \/ MenuSafety
  \/ MenuQuit
  \/ MenuUnrecognized
  \/ Interrupt
  \/ Finally
  \/ ScanClear
  \/ ScanRegisterSend
  \/ ScanWaitSet
  \/ ScanWaitTimeout
  \/ ProcessCheck
  \/ ProcessLoop
  \/ ProcessAssign
  \/ ScanUnregister
  \/ PickPlaceStart
  \/ SelectPrint
  \/ \E text \in SelectionInputs : SelectInput(text)
  \/ SelectReturn
  \/ PickStart
  \/ MoveReset
  \/ MoveSend
  \/ MoveConfirmed
  \/ MoveFailed
  \/ MoveTimeout
  \/ SafetySend
  \/ SafetyPoll
  \/ SafetySleep
  \/ SafetyClose
  \/ SequenceDone
  \/ SequenceFailed
  \/ \E data \in Events : Detect(data)
  \/ DeliverScanComplete
  \/ \E state \in {"completed", "failed"} : DeliverConfirmation(state)
  \/ DropConfirmation
  \/ DeliverSafety

Spec == Init /\ [][Next]_vars

\* ------------------------------------------------- passage of time, fairness

\* The steps the control thread takes by itself: the statements that follow one
\* another without waiting for the user, and the waits that a timeout ends
\* (scan_complete_event.wait(timeout=60), wait_for_confirmation, the polling
\* loop of handle_movement_failure).  The menu prompt and the selection prompt
\* wait for the user and are not among them.
ControlStep ==
  \/ ScanRegisterSend
  \/ ScanWaitSet
  \/ ScanWaitTimeout
  \/ ProcessCheck
  \/ ProcessLoop
  \/ ProcessAssign
  \/ ScanUnregister
  \/ SelectPrint
  \/ SelectReturn
  \/ PickStart
  \/ MoveReset
  \/ MoveSend
  \/ MoveConfirmed
  \/ MoveFailed
  \/ MoveTimeout
  \/ SafetySend
  \/ SafetyPoll
  \/ SafetySleep
  \/ SafetyClose
  \/ SequenceDone
  \/ SequenceFailed
  \/ Finally

\* The serial link hands over or loses the oldest unanswered movement command.
LinkStep ==
  \/ \E state \in {"completed", "failed"} : DeliverConfirmation(state)
  \/ DropConfirmation

\* What the user does: the menu commands, the typed selection, Ctrl-C.
UserStep ==
  \/ \E ok \in BOOLEAN : Connect(ok)
  \/ MenuCheck
  \/ MenuSafety
  \/ MenuQuit
  \/ MenuUnrecognized
  \/ Interrupt
  \/ ScanClear
  \/ PickPlaceStart
  \/ \E text \in SelectionInputs : SelectInput(text)

\* Whether a command ends does not depend on what a detection carries: one
\* kind of detection, a mapped class.
LiveEvents == { DetectionEvent(TRUE, <<"A","p","p","l","e">>, 10, 100, 90) }

\* What the reader thread delivers besides confirmations.
SignalStep ==
  \/ \E data \in LiveEvents : Detect(data)
  \/ DeliverScanComplete
  \/ DeliverSafety

NextLive ==
  \/ UserStep
  \/ ControlStep
  \/ LinkStep
  \/ SignalStep

\* Time passes: the control thread is scheduled and its timeouts expire, and a
\* command does not stay on the link for ever.  Nothing is assumed about what
\* the transport delivers or when.
SpecLive == Init /\ [][NextLive]_vars /\ WF_vars(ControlStep) /\ WF_vars(LinkStep)

\* ------------------------------------------ the registry functions on their own

\* process_scan_results on a whole list, no callback running beside it
ProcessScanResults(results) ==
  [i \in 1..Len(results) |-> ProcessedItem(i, results[i])]

\* Class strings handed to the registry: every spelling of the mapped classes,
\* of 'default', of an unmapped class and the empty string ...
ZoneClasses ==
  UNION { CaseVariants(w) : w \in {apple, orange, bottle, default, <<"c","u","p">>, <<>>} }

\* ... paired with a second class: the same words in other spellings, a prefix
\* and a class with a trailing blank.
ZonePartners ==
  { apple, <<"A","P","P","L","E">>, <<"o","R","a","N","g","E">>,
    <<"B","o","t","t","l","e">>, <<"D","e","f","a","u","l","t">>, <<"C","U","P">>,
    <<>>, <<"a","p","p","l">>, <<"a","p","p","l","e"," ">> }

\* Two detections wait to be recorded; nothing else runs.
InitZone ==
  /\ pc = "registry"
  /\ scan_results = <<>>
  /\ callback = TRUE
  /\ scan_complete_event = FALSE
  /\ proc_i = 0
  /\ processed_list = <<>>
  /\ selection = NoSelection
  /\ selected_object = NoObject
  /\ message_type = ""
  /\ movement_sequence = <<>>
  /\ move_i = 0
  /\ movement_status = [j \in Joints |-> "none"]
  /\ safety_status = "idle"
  /\ safe_elapsed = 0
  /\ is_open = TRUE
  /\ closes = 0
  /\ scan_requested = FALSE
  /\ safety_requested = FALSE
  /\ inflight = <<>>
  /\ sent = <<>>
  /\ \E c1 \in ZoneClasses, c2 \in ZonePartners :
        delivered = << DetectionEvent(TRUE, c1, 10, 100, 90),
                       DetectionEvent(TRUE, c2, 20, 150, 80) >>
  /\ late_detection = FALSE
  /\ own_signal = FALSE
  /\ last_scan = "none"
  /\ waits = <<>>
  /\ safety_arrival = "none"
  /\ fault = "none"
  /\ own_answer = "none"
  /\ exit_code = None
  /\ exit_cause = "none"

\* _update_object_registry records the next waiting detection
RegistryUpdate ==
  /\ pc = "registry"
  /\ Len(scan_results) < Len(delivered)
  /\ scan_results' = UpdateObjectRegistry(scan_results, delivered[Len(scan_results) + 1])
  /\ UNCHANGED <<pc, callback, scan_complete_event, proc_i, processed_list, delivered,
                 late_detection, own_signal, last_scan, attempt_vars, status_vars, link_vars,
                 fault_vars, exit_vars, sent, waits>>

\* process_scan_results finalizes what was recorded
RegistryProcess ==
  /\ pc = "registry"
  /\ Len(scan_results) = Len(delivered)
  /\ scan_results' = ProcessScanResults(scan_results)
  /\ pc' = "finalized"
  /\ UNCHANGED <<callback, scan_complete_event, proc_i, processed_list, delivered,
                 late_detection, own_signal, last_scan, attempt_vars, status_vars, link_vars,
                 fault_vars, exit_vars, sent, waits>>

NextZone ==
  \/ RegistryUpdate
  \/ RegistryProcess

SpecZone == InitZone /\ [][NextZone]_vars

\* ------------------------------------------------------------------ claims

\* The messages of one service among those sent, in the order sent.
SentOf(service) ==
  LET OfService(m) == m.service = service IN SelectSeq(sent, OfService)

\* The waits of one service among those recorded, in order.
WaitsOf(service) ==
  LET OfService(w) == w.service = service IN SelectSeq(waits, OfService)

\* The control thread is inside execute_movement or what it called.
InMovement ==
  pc \in {"move_reset", "move_send", "move_wait", "safety_send", "safety_poll",
          "safety_sleep", "safety_close", "sequence_done", "sequence_failed"}

\* Commands of the running plan sent, and waits of the running plan resolved.
Issued == Len(SentOf(message_type))
Resolved == Len(WaitsOf(message_type))

\* C1: during execute_movement the commands of the plan are sent in plan order,
\* the command of step k+1 only after the wait of step k has resolved: the
\* commands sent exceed the waits resolved by at most one, and by one exactly
\* while the thread waits for that one confirmation.
C1_OneStepOutstanding ==
  InMovement =>
    /\ Issued - Resolved \in {0, 1}
    /\ (Issued - Resolved = 1) <=> (pc = "move_wait")
    /\ Issued <= Len(movement_sequence)
    /\ \A n \in 1..Issued : SentOf(message_type)[n] = Message(message_type, movement_sequence[n])

\* C1 witness: the second command of a plan is out, after the first wait resolved.
C1_Witness ==
  /\ pc = "move_wait"
  /\ move_i = 2
  /\ Issued = 2
  /\ Resolved = 1

\* The position in waits of the first wait that did not confirm, 0 if none.
FirstFailure ==
  IF \E i \in 1..Len(waits) : ~waits[i].ok
  THEN CHOOSE i \in 1..Len(waits) : ~waits[i].ok /\ \A j \in 1..(i - 1) : waits[j].ok
  ELSE 0

\* C2: when step k is the first step of a plan whose confirmation fails or
\* times out, the commands sent with the plan's service tag are exactly the
\* steps 1..k of the plan, in plan order, from the failure until the attempt ends.
C2_FailureAtKSendsK ==
  FirstFailure # 0 =>
    LET f == waits[FirstFailure] IN
      /\ f.service = message_type
      /\ Len(SentOf(f.service)) = f.step
      /\ \A n \in 1..f.step :
           SentOf(f.service)[n] = Message(f.service, movement_sequence[n])

\* C2 witness: the third of the five place steps failed, the safety protocol
\* recovered, and three place commands were sent.
C2_Witness ==
  /\ pc = "sequence_failed"
  /\ FirstFailure # 0
  /\ waits[FirstFailure].service = "place_service"
  /\ waits[FirstFailure].step = 3
  /\ Len(movement_sequence) = 5
  /\ Len(SentOf("place_service")) = 3

\* The safety status was 'completed' at some moment before the deadline of the
\* current safety request.
CompletedBeforeDeadline == safety_arrival \in {"stale", "in_time"}

\* C3: handle_movement_failure returns (Recovered) if and only if the safety
\* status is 'completed' at some moment strictly before the deadline; in every
\* other case the outcome is Fatal.
C3_RecoveredIffCompletedInTime ==
  fault # "none" => ((fault = "Recovered") <=> CompletedBeforeDeadline)

\* C4: on the Fatal path the transport is closed exactly once up to process exit.
C4_FatalClosesOnce ==
  (pc = "Terminated" /\ exit_cause = "safety_timeout") => closes = 1

\* The detections with a non-empty class among evs, in order.
WithClass(evs) ==
  LET Classified(e) == e.has_class /\ Len(e.class) > 0 IN SelectSeq(evs, Classified)

\* C5: when a scan ended with the scan-complete signal and every detection of
\* the scan was handed over before the wait returned, the finalized catalog has
\* one entry per detection with a non-empty class, in arrival order, with the
\* indices 1..n; detections with an empty or missing class add nothing.
C5_CatalogMatchesDetections ==
  (pc = "scan_unregister" /\ last_scan = "complete" /\ ~late_detection) =>
    /\ Len(scan_results) = Len(WithClass(delivered))
    /\ \A i \in 1..Len(scan_results) :
         /\ scan_results[i].index = i
         /\ scan_results[i].angle = WithClass(delivered)[i].angle
         /\ scan_results[i].distance = WithClass(delivered)[i].distance
         /\ scan_results[i].class = WithClass(delivered)[i].class
         /\ scan_results[i].confidence = WithClass(delivered)[i].confidence

\* C5 witness: a finished scan of two detections, the first without a usable
\* class, the second with one.
C5_Witness ==
  /\ pc = "scan_unregister"
  /\ last_scan = "complete"
  /\ ~late_detection
  /\ Len(delivered) = 2
  /\ ~(delivered[1].has_class /\ Len(delivered[1].class) > 0)
  /\ Len(scan_results) = 1
  /\ scan_results[1].index = 1

\* C6: after a scan that ended by the timeout the orchestrator is back in Idle
\* with an empty catalog.
C6_TimeoutResetsCatalog ==
  (pc = "Idle" /\ last_scan = "timeout") => scan_results = <<>>

\* C7: a place command is sent only after the four pick steps were confirmed,
\* and once a pick step failed or timed out no place command is sent in the
\* attempt.
C7_PlaceOnlyAfterPick ==
  /\ SentOf("place_service") # <<>> =>
       /\ Len(WaitsOf("pick_service")) = 4
       /\ \A i \in 1..4 : WaitsOf("pick_service")[i].ok
  /\ (\E i \in 1..Len(waits) : waits[i].service = "pick_service" /\ ~waits[i].ok) =>
       SentOf("place_service") = <<>>

\* C7 witness: a pick step failed, the safety protocol recovered, and the pick
\* sequence is about to return False.
C7_Witness ==
  /\ pc = "sequence_failed"
  /\ fault = "Recovered"
  /\ message_type = "pick_service"
  /\ FirstFailure # 0

\* The parsed selection names no catalog entry: it is no number, it is 0, or no
\* entry has it as index.
SelectionInvalid ==
  \/ ~selection.ok
  \/ selection.val = 0
  \/ \A i \in 1..Len(scan_results) : scan_results[i].index # selection.val

\* C8: from Selecting, an invalid selection takes the orchestrator to Idle with
\* no command sent and the catalog unchanged.
C8_InvalidSelectionToIdle ==
  [][(pc = "select_return" /\ pc' # pc /\ SelectionInvalid) =>
       /\ pc' = "Idle"
       /\ sent = <<>>
       /\ sent' = <<>>
       /\ scan_results' = scan_results]_vars

\* C8 witness: the user typed a number that is the index of no catalog entry.
C8_Witness ==
  /\ pc = "select_return"
  /\ selection.ok
  /\ selection.val > Len(scan_results)
  /\ scan_results # <<>>

\* C9: the process ends with status 1 only by the safety deadline, and
\* Terminated has no way out.
C9_OnlySafetyTimeoutIsFatal ==
  [][/\ (pc' = "Terminated" /\ exit_code' = 1) => exit_cause' = "safety_timeout"
     /\ pc = "Terminated" => pc' = "Terminated"]_vars

\* c and d are the same string up to letter case.
SameUpToCase(c, d) ==
  /\ Len(c) = Len(d)
  /\ \A i \in 1..Len(c) :
       c[i] = d[i] \/ UpperChar(c[i]) = d[i] \/ c[i] = UpperChar(d[i])

\* The zone the configuration gives to a class, whatever its spelling.
ConfiguredZone(c) ==
  IF SameUpToCase(c, apple) THEN [angle |-> 90, distance |-> 200]
  ELSE IF SameUpToCase(c, orange) THEN [angle |-> 180, distance |-> 200]
  ELSE IF SameUpToCase(c, bottle) THEN [angle |-> 45, distance |-> 200]
  ELSE [angle |-> 270, distance |-> 200]

\* C10: every class string, empty, mixed-case, mapped or not, gets a zone: the
\* configured one whatever the spelling, the default {270, 200} when unmapped
\* or empty; two strings that differ only in case get the same zone; so every
\* entry of a finalized catalog carries a zone.
C10_ZoneTotalCaseInsensitive ==
  /\ \A n \in 1..Len(delivered) :
       /\ GetPlacementZones(delivered[n].class) = ConfiguredZone(delivered[n].class)
       /\ \A m \in 1..Len(delivered) :
            SameUpToCase(delivered[n].class, delivered[m].class) =>
              GetPlacementZones(delivered[n].class) = GetPlacementZones(delivered[m].class)
  /\ \A i \in 1..Len(scan_results) :
      /\ scan_results[i].placement_zone = ConfiguredZone(scan_results[i].class)
      /\ scan_results[i].placement_zone.angle # None
      /\ \A j \in 1..Len(scan_results) :
           SameUpToCase(scan_results[i].class, scan_results[j].class) =>
             scan_results[i].placement_zone = scan_results[j].placement_zone

\* C10 witness: a finalized catalog whose two entries spell a mapped class
\* differently.
C10_Witness ==
  /\ pc = "finalized"
  /\ Len(scan_results) = 2
  /\ scan_results[1].class # scan_results[2].class
  /\ SameUpToCase(scan_results[1].class, apple)
  /\ SameUpToCase(scan_results[2].class, apple)
  /\ scan_results[1].placement_zone = [angle |-> 90, distance |-> 200]

\* The pcs of one pick & place attempt, from the selection to the return of the
\* last sequence.
InAttempt ==
  pc \in {"select_print", "select_input", "select_return", "pick_start", "move_reset",
          "move_send", "move_wait", "safety_send", "safety_poll", "safety_sleep",
          "sequence_done", "sequence_failed"}

\* Every entry of the catalog went through process_scan_results.
Finalized(results) == \A i \in 1..Len(results) : IsProcessed(results[i])

\* C11: a finalized catalog is changed only by the next scan: no step of a pick
\* & place attempt that is cancelled, runs to its end, or fails and recovers
\* changes the catalog.
C11_AttemptKeepsCatalog ==
  [][(InAttempt /\ Finalized(scan_results) /\ pc' # "Terminated") =>
       scan_results' = scan_results]_vars

\* C11 witness: a place step failed, the safety protocol recovered, and the
\* attempt is about to return to the menu with its finalized catalog.
C11_Witness ==
  /\ pc = "sequence_failed"
  /\ message_type = "place_service"
  /\ fault = "Recovered"
  /\ scan_results # <<>>
  /\ Finalized(scan_results)

\* The orchestrator is in Selecting.
InSelecting == pc \in {"select_print", "select_input", "select_return"}

\* C12: the pick & place command issued in Idle with an empty catalog returns
\* to Idle, without entering Selecting and with no command sent; and with an
\* empty catalog the orchestrator is never in Selecting.
C12_EmptyCatalogStaysIdle ==
  [][/\ (PickPlaceStart /\ scan_results = <<>>) =>
          /\ pc' = "Idle"
          /\ sent' = <<>>
          /\ scan_results' = <<>>
     /\ InSelecting' => scan_results' # <<>>]_vars

\* C12 witness: Idle with an empty catalog after a scan that found nothing,
\* where the pick & place command can be issued.
C12_Witness ==
  /\ pc = "Idle"
  /\ scan_results = <<>>
  /\ last_scan = "complete"
  /\ ENABLED PickPlaceStart

\* C13: once a scan has completed and the subscription is released, every
\* entry of the catalog has an index and the indices are exactly 1..n, also
\* when a detection arrived after the scan-complete signal and before the
\* unsubscribe.
C13_IndexedAfterCompletedScan ==
  (pc = "Idle" /\ last_scan = "complete") =>
    \A i \in 1..Len(scan_results) : scan_results[i].index = i

\* C14: a plan step counts as completed only by the confirmation of its own
\* command: whenever wait_for_confirmation returns True, the hardware has
\* answered 'completed' to the command of that step.
C14_OnlyOwnConfirmationAdvances ==
  [][(/\ pc = "move_wait"
      /\ Len(waits') = Len(waits) + 1
      /\ waits'[Len(waits')].ok) => own_answer = "completed"]_vars

\* C15: a delivered detection changes the catalog only between the start of a
\* scan and the return of that scan's wait (by the signal or by the timeout);
\* in every other state, from construction on, it leaves the catalog unchanged.
C15_DetectionOnlyDuringScan ==
  [][(Len(delivered') = Len(delivered) + 1 /\ scan_results' # scan_results) =>
       pc \in {"scan_register", "scan_wait"}]_vars

\* C16: the recovery of a movement failure returns Recovered only if the safety
\* status reached 'completed' after the safety command of that failure was
\* sent; a 'completed' left from an earlier safety run does not count.
C16_RecoveredOnlyByFreshCompleted ==
  fault = "Recovered" => safety_arrival = "in_time"

\* The waits of the attempt that did not confirm.
FailedWaits == LET Failed(w) == ~w.ok IN SelectSeq(waits, Failed)

\* C17: each movement failure sends exactly one safety_service command: none
\* before the failure, one from handle_movement_failure on, and no further one
\* while polling, after the deadline, or while the failure leaves the sequence.
C17_OneSafetyCommandPerFailure ==
  (InAttempt \/ pc \in {"safety_close", "finally"}) =>
    /\ Len(FailedWaits) <= 1
    /\ Len(SentOf("safety_service")) =
         IF pc = "safety_send" THEN 0 ELSE Len(FailedWaits)

\* C17 witness: the deadline of the safety protocol has passed after the failure
\* of a step, and one safety command was sent.
C17_Witness ==
  /\ pc = "safety_close"
  /\ fault = "Fatal"
  /\ Len(FailedWaits) = 1
  /\ Len(SentOf("safety_service")) = 1

\* C18: a scan ends as complete only on a scan-complete signal delivered after
\* the command of that scan was sent; a signal of an earlier scan that came
\* after that scan had timed out does not complete a later scan.
C18_CompleteOnlyByOwnSignal ==
  (pc \in AfterScanWait /\ last_scan = "complete") => own_signal

\* The joint, action, angle and distance of the n-th message sent.
SentStep(n) ==
  <<sent[n].service, sent[n].move.joint, sent[n].move.action, sent[n].move.angle,
    sent[n].move.distance>>

\* C20: when every step is confirmed, one pick & place attempt sends exactly
\* nine movement commands in this order: four pick_service (base to the
\* object's angle, arm pick at its distance, gripper close, arm up), then five
\* place_service (base to the zone angle, arm place at the zone distance,
\* gripper open, arm up, base to 0), and no safety_service command.
C20_NineCommandsInOrder ==
  (pc = "sequence_done" /\ message_type = "place_service") =>
    LET o == selected_object
        z == selected_object.placement_zone
    IN /\ Len(sent) = 9
       /\ SentStep(1) = <<"pick_service", "base", "", o.angle, None>>
       /\ SentStep(2) = <<"pick_service", "arm", "pick", None, o.distance>>
       /\ SentStep(3) = <<"pick_service", "gripper", "close", None, None>>
       /\ SentStep(4) = <<"pick_service", "arm", "up", None, o.distance>>
       /\ SentStep(5) = <<"place_service", "base", "", z.angle, None>>
       /\ SentStep(6) = <<"place_service", "arm", "place", None, z.distance>>
       /\ SentStep(7) = <<"place_service", "gripper", "open", None, None>>
       /\ SentStep(8) = <<"place_service", "arm", "up", None, o.distance>>
       /\ SentStep(9) = <<"place_service", "base", "", 0, None>>
       /\ o \in {scan_results[i] : i \in 1..Len(scan_results)}
       /\ z = ConfiguredZone(o.class)

\* C20 witness: the nine steps of an attempt on the second entry of the catalog
\* were confirmed.
C20_Witness ==
  /\ pc = "sequence_done"
  /\ message_type = "place_service"
  /\ Len(waits) = 9
  /\ \A i \in 1..9 : waits[i].ok
  /\ selected_object.index = 2

\* handle_scan_command is running.
InScan == pc \in {"scan_register", "scan_wait"} \cup AfterScanWait

\* A pick & place attempt has left Selecting with an object.
PastSelecting ==
  pc \in {"pick_start", "move_reset", "move_send", "move_wait", "safety_send",
          "safety_poll", "safety_sleep", "safety_close", "finally", "sequence_done",
          "sequence_failed"}

\* C19: under fair passage of time, whatever the transport delivers or fails to
\* deliver, every started scan returns to Idle and every pick & place attempt
\* that has left Selecting ends in Idle or Terminated.
C19_EveryCommandEnds ==
  /\ (InScan \/ PastSelecting) ~> (pc \in {"Idle", "Terminated"})
  /\ [][InScan => pc' # "Terminated"]_vars

\* C19 witness: the sequencer waits for a confirmation that the hardware will
\* never send, with no scan-complete signal and no safety completion pending.
C19_Witness ==
  /\ pc = "move_wait"
  /\ inflight = <<>>
  /\ movement_status[CurrentMove.joint] = "pending"
  /\ ~safety_requested
  /\ safety_status = "idle"

====
